---- MODULE Spec2Model ----
(***************************************************************************)
(* PowerPointProcessor (samples/medium-complexity.py): the slide filter,   *)
(* the slide classifier, the three extraction strategies and the result    *)
(* merger, as one pass of process_powerpoint_with_text_extraction over a   *)
(* presentation.                                                           *)
(*                                                                         *)
(* Strings are sequences of one-character strings, so that strip(),        *)
(* lower(), len() and the substring test `p in s` are computed.            *)
(***************************************************************************)
EXTENDS Integers, Sequences, FiniteSets, TLC

VARIABLES
    doc,                        \* prs.slides: the slides, each a sequence of shapes
    corrupt,                    \* the file cannot be opened by Presentation()
    pc,                         \* position in process_powerpoint_with_text_extraction
    steps,                      \* the ">> [STEP n]" stages that were entered
    errors,                     \* the logger.error / error prints emitted
    valid_slides,
    removed_slides,
    table_slides,
    complex_slides,
    simple_slides,
    processed_tables,           \* slide index -> table record
    complex_slide_descriptions, \* slide index -> formatted description
    markdown_content,           \* the simple slides' text
    outcomes,                   \* slide index -> what the exporter and the description service did
    raw_saved,                  \* raw_text_path is not None
    writes,                     \* the scratch paths each slide's export wrote
    attempts,                   \* the subprocess.run calls of the conversion chain
    result                      \* what the entry point returned

vars == <<writes, attempts, doc, corrupt, pc, steps, errors, valid_slides, removed_slides,
          table_slides, complex_slides, simple_slides, processed_tables,
          complex_slide_descriptions, outcomes, markdown_content, raw_saved,
          result>>

----------------------------------------------------------------------------
(* Bounds of the model *)

MaxSlides == 2

MaxShapes == 2

MaxDocShapes == 3

----------------------------------------------------------------------------
(* Strings *)

NL == "\n"

IsSpace(c) == c \in {" ", NL, "\t"}

RECURSIVE LStrip(_)
LStrip(s) ==
    IF s = <<>> THEN s
    ELSE IF IsSpace(Head(s)) THEN LStrip(Tail(s)) ELSE s

RECURSIVE RStrip(_)
RStrip(s) ==
    IF s = <<>> THEN s
    ELSE IF IsSpace(s[Len(s)]) THEN RStrip(SubSeq(s, 1, Len(s) - 1)) ELSE s

\* str.strip()
Strip(s) == RStrip(LStrip(s))

LowerChar(c) ==
    CASE c = "A" -> "a" [] c = "B" -> "b" [] c = "C" -> "c" [] c = "D" -> "d"
      [] c = "E" -> "e" [] c = "F" -> "f" [] c = "G" -> "g" [] c = "H" -> "h"
      [] c = "I" -> "i" [] c = "J" -> "j" [] c = "K" -> "k" [] c = "L" -> "l"
      [] c = "M" -> "m" [] c = "N" -> "n" [] c = "O" -> "o" [] c = "P" -> "p"
      [] c = "Q" -> "q" [] c = "R" -> "r" [] c = "S" -> "s" [] c = "T" -> "t"
      [] c = "U" -> "u" [] c = "V" -> "v" [] c = "W" -> "w" [] c = "X" -> "x"
      [] c = "Y" -> "y" [] c = "Z" -> "z" [] OTHER -> c

\* str.lower()
Lower(s) == [i \in 1..Len(s) |-> LowerChar(s[i])]

\* p in s
Contains(p, s) ==
    \E i \in 0..(Len(s) - Len(p)) : SubSeq(s, i + 1, i + Len(p)) = p

\* list(range(a, b + 1))
Range(a, b) == [i \in 1..(b - a + 1) |-> a + i - 1]

ToSet(seq) == {seq[i] : i \in 1..Len(seq)}

\* [x for x in seq if Keep(x)]
RECURSIVE SelectIdx(_, _)
SelectIdx(seq, keep) ==
    IF seq = <<>> THEN <<>>
    ELSE (IF Head(seq) \in keep THEN <<Head(seq)>> ELSE <<>>)
         \o SelectIdx(Tail(seq), keep)

----------------------------------------------------------------------------
(* Shapes, as python-pptx presents them *)

MSO_AUTO_SHAPE == 1

MSO_LINE == 9

MSO_PICTURE == 13

MSO_TEXT_BOX == 17

MSO_TABLE == 19

\* A shape: shape_type (or type_raises when reading shape_type raises
\* NotImplementedError), name, text (has_text says whether the attribute
\* exists, text_raises that reading it raises), is_ph (placeholder_format is
\* not None), has_shapes (a group, with the texts of its sub-shapes in
\* sub_texts), cells (a table's rows of cell texts). shape_type is not read
\* where type_raises holds.
Shape(type, name, hasText, text) ==
    [shape_type |-> type, type_raises |-> FALSE, name |-> name,
     has_text |-> hasText, text |-> text, text_raises |-> FALSE,
     is_ph |-> FALSE, has_shapes |-> FALSE, sub_texts |-> <<>>, cells |-> <<>>]

T_Revenue == <<"R", "e", "v", "e", "n", "u", "e", " ", "u", "p", " ", "9", "%">>

T_ThankYou == <<" ", "T", "h", "a", "n", "k", " ", "Y", "o", "u", " ">>

\* a paragraph of more than 50 characters
T_Quarterly ==
    <<"Q", "u", "a", "r", "t", "e", "r", "l", "y", " ", "r", "e", "v", "e",
      "n", "u", "e", " ", "g", "r", "e", "w", " ", "i", "n", " ", "e", "v",
      "e", "r", "y", " ", "r", "e", "g", "i", "o", "n", " ", "a", "n", "d",
      " ", "m", "a", "r", "g", "i", "n", "s", " ", "h", "e", "l", "d">>

N_TextBox == <<"T", "e", "x", "t", "B", "o", "x">>

N_Table == <<"T", "a", "b", "l", "e">>

N_Picture == <<"P", "i", "c", "t", "u", "r", "e">>

N_FooterLogo == <<"F", "o", "o", "t", "e", "r", " ", "L", "o", "g", "o">>

N_FooterInk == <<"F", "o", "o", "t", "e", "r", " ", "I", "n", "k">>

N_Ink == <<"I", "n", "k">>

N_Oval == <<"O", "v", "a", "l">>

S_TextBox == Shape(MSO_TEXT_BOX, N_TextBox, TRUE, T_Revenue)

S_Paragraph == Shape(MSO_TEXT_BOX, N_TextBox, TRUE, T_Quarterly)

S_ThankYou == Shape(MSO_TEXT_BOX, N_TextBox, TRUE, T_ThankYou)

S_Table ==
    [Shape(MSO_TABLE, N_Table, FALSE, <<>>) EXCEPT
        !.cells = << << <<"Q", "1">>, <<" ">>, <<"4", "2">> >>, << <<>>, <<" ">>, <<>> >> >>]

S_Picture == Shape(MSO_PICTURE, N_Picture, FALSE, <<>>)

\* a picture that the name test takes for layout infrastructure
S_FooterPicture == Shape(MSO_PICTURE, N_FooterLogo, FALSE, <<>>)

\* a shape python-pptx does not recognise: shape_type raises
S_Unsupported ==
    [Shape(MSO_AUTO_SHAPE, N_Ink, FALSE, <<>>) EXCEPT !.type_raises = TRUE]

S_FooterUnsupported ==
    [Shape(MSO_AUTO_SHAPE, N_FooterInk, FALSE, <<>>) EXCEPT !.type_raises = TRUE]

\* an auto shape whose text property raises
S_BadText ==
    [Shape(MSO_AUTO_SHAPE, N_Oval, TRUE, <<>>) EXCEPT !.text_raises = TRUE]

ShapeCatalog ==
    {S_TextBox, S_Paragraph, S_ThankYou, S_Table, S_Picture, S_FooterPicture,
     S_Unsupported, S_FooterUnsupported, S_BadText}

Slides == UNION {[1..n -> ShapeCatalog] : n \in 0..MaxShapes}

\* the presentations of n slides with at most `budget` shapes in all
RECURSIVE DocsOf(_, _)
DocsOf(n, budget) ==
    IF n = 0 THEN {<<>>}
    ELSE UNION {{<<slide>> \o d : d \in DocsOf(n - 1, budget - Len(slide))} :
                    slide \in {s \in Slides : Len(s) <= budget}}

\* the presentations: at most MaxSlides slides of at most MaxShapes shapes,
\* MaxDocShapes shapes in all
Docs == UNION {DocsOf(n, MaxDocShapes) : n \in 0..MaxSlides}

\* ":slide-"
SLIDE_TAG == <<":", "s", "l", "i", "d", "e", "-">>

\* file_path.name
DocName == <<"d", ".", "p", "p", "t", "x">>

----------------------------------------------------------------------------
(* _filter_useless_slides *)

skip_patterns ==
    << <<"t", "h", "a", "n", "k", " ", "y", "o", "u">>,
       <<"t", "h", "a", "n", "k", "s">>,
       <<"a", "p", "p", "e", "n", "d", "i", "x">>,
       <<"q", "u", "e", "s", "t", "i", "o", "n", "s">>,
       <<"q", "&", "a">>,
       <<"c", "o", "n", "t", "a", "c", "t", " ", "u", "s">>,
       <<"c", "o", "n", "t", "a", "c", "t", " ", "i", "n", "f", "o", "r", "m", "a", "t", "i", "o", "n">>,
       <<"c", "o", "n", "t", "a", "c", "t", ":">> >>

\* hasattr(shape, "text") and shape.text.strip()
HasNonEmptyText(shape) == shape.has_text /\ Strip(shape.text) # <<>>

\* slide_text of one slide: " " + shape.text.strip().lower() per shape with text
RECURSIVE FilterSlideText(_)
FilterSlideText(slide) ==
    IF slide = <<>> THEN <<>>
    ELSE (IF HasNonEmptyText(Head(slide))
          THEN <<" ">> \o Lower(Strip(Head(slide).text)) ELSE <<>>)
         \o FilterSlideText(Tail(slide))

\* the pattern test, had it looked at the first text on the slide only
should_skip_TitleOnly(slide) ==
    \E k \in 1..Len(skip_patterns) :
        Contains(skip_patterns[k],
                 FilterSlideText(IF slide = <<>> THEN <<>> ELSE <<Head(slide)>>))

should_skip(slide) ==
    \E k \in 1..Len(skip_patterns) : Contains(skip_patterns[k], FilterSlideText(slide))

\* reading some shape's text raises inside the filter's loop
FilterReadRaises(d) ==
    \E i \in 1..Len(d) : \E j \in 1..Len(d[i]) : d[i][j].text_raises

\* _filter_useless_slides, had its except branch given up instead of
\* re-opening: nothing is raised, and no slide is valid
FilterUselessSlides_Swallow(d, open1, open2) ==
    IF open1 /\ ~FilterReadRaises(d)
    THEN [raised |-> FALSE, logged |-> FALSE,
          valid |-> SelectIdx(Range(1, Len(d)), {i \in 1..Len(d) : ~should_skip(d[i])}),
          removed |-> SelectIdx(Range(1, Len(d)), {i \in 1..Len(d) : should_skip(d[i])})]
    ELSE [raised |-> FALSE, logged |-> TRUE, valid |-> <<>>, removed |-> <<>>]

\* _filter_useless_slides, had its except branch kept filtering
FilterUselessSlides_StillFilters(d, open1, open2) ==
    IF open1 \/ open2
    THEN [raised |-> FALSE, logged |-> ~open1 \/ FilterReadRaises(d),
          valid |-> SelectIdx(Range(1, Len(d)), {i \in 1..Len(d) : ~should_skip(d[i])}),
          removed |-> SelectIdx(Range(1, Len(d)), {i \in 1..Len(d) : should_skip(d[i])})]
    ELSE [raised |-> TRUE, logged |-> TRUE, valid |-> <<>>, removed |-> <<>>]

\* _filter_useless_slides, had it appended every slide to valid_slides
FilterUselessSlides_KeepsRemoved(d, open1, open2) ==
    IF open1 /\ ~FilterReadRaises(d)
    THEN [raised |-> FALSE, logged |-> FALSE,
          valid |-> Range(1, Len(d)),
          removed |-> SelectIdx(Range(1, Len(d)), {i \in 1..Len(d) : should_skip(d[i])})]
    ELSE IF open2
    THEN [raised |-> FALSE, logged |-> TRUE,
          valid |-> Range(1, Len(d)), removed |-> <<>>]
    ELSE [raised |-> TRUE, logged |-> TRUE, valid |-> <<>>, removed |-> <<>>]

\* _filter_useless_slides, had it taken a presentation without slides for an
\* error
FilterUselessSlides_EmptyIsError(d, open1, open2) ==
    IF open1 /\ ~FilterReadRaises(d) /\ d # <<>>
    THEN [raised |-> FALSE, logged |-> FALSE,
          valid |-> SelectIdx(Range(1, Len(d)), {i \in 1..Len(d) : ~should_skip(d[i])}),
          removed |-> SelectIdx(Range(1, Len(d)), {i \in 1..Len(d) : should_skip(d[i])})]
    ELSE IF open2
    THEN [raised |-> FALSE, logged |-> TRUE,
          valid |-> Range(1, Len(d)), removed |-> <<>>]
    ELSE [raised |-> TRUE, logged |-> TRUE, valid |-> <<>>, removed |-> <<>>]

\* _filter_useless_slides, had it numbered the slides it keeps by their
\* position among the kept ones
FilterUselessSlides_Renumbers(d, open1, open2) ==
    IF open1 /\ ~FilterReadRaises(d)
    THEN [raised |-> FALSE, logged |-> FALSE,
          valid |-> Range(1, Cardinality({i \in 1..Len(d) : ~should_skip(d[i])})),
          removed |-> SelectIdx(Range(1, Len(d)), {i \in 1..Len(d) : should_skip(d[i])})]
    ELSE IF open2
    THEN [raised |-> FALSE, logged |-> TRUE,
          valid |-> Range(1, Len(d)), removed |-> <<>>]
    ELSE [raised |-> TRUE, logged |-> TRUE, valid |-> <<>>, removed |-> <<>>]

\* The value of _filter_useless_slides: open1 / open2 say whether the first
\* Presentation() call and the one in the except branch succeed.
FilterUselessSlides(d, open1, open2) ==
    IF open1 /\ ~FilterReadRaises(d)
    THEN [raised |-> FALSE, logged |-> FALSE,
          valid |-> SelectIdx(Range(1, Len(d)), {i \in 1..Len(d) : ~should_skip(d[i])}),
          removed |-> SelectIdx(Range(1, Len(d)), {i \in 1..Len(d) : should_skip(d[i])})]
    ELSE IF open2
    THEN [raised |-> FALSE, logged |-> TRUE,
          valid |-> Range(1, Len(d)), removed |-> <<>>]
    ELSE [raised |-> TRUE, logged |-> TRUE, valid |-> <<>>, removed |-> <<>>]

----------------------------------------------------------------------------
(* _is_complex_slide *)

N_footer == <<"f", "o", "o", "t", "e", "r">>

N_slide_number == <<"s", "l", "i", "d", "e", " ", "n", "u", "m", "b", "e", "r">>

N_placeholder == <<"p", "l", "a", "c", "e", "h", "o", "l", "d", "e", "r">>

N_rectangle == <<"r", "e", "c", "t", "a", "n", "g", "l", "e">>

N_rect == <<"r", "e", "c", "t">>

N_connector == <<"c", "o", "n", "n", "e", "c", "t", "o", "r">>

MaxContentObjects == 6

MaxVisualGraphics == 2

MinRectTextLen == 10

\* is_placeholder: by name, or a real placeholder (placeholder_format is not
\* None; on any other shape the property raises and the bare except passes)
is_placeholder(shape) ==
    \/ Contains(N_footer, Lower(shape.name))
    \/ Contains(N_slide_number, Lower(shape.name))
    \/ Contains(N_placeholder, Lower(shape.name))
    \/ shape.is_ph

content_objects(slide) == SelectSeq(slide, LAMBDA sh : ~is_placeholder(sh))

\* an auto shape counts as a visual graphic unless it is a rectangle holding
\* more than 10 characters of text
IsVisualGraphic(shape) ==
    \/ shape.shape_type = MSO_PICTURE
    \/ shape.shape_type = MSO_LINE
    \/ /\ shape.shape_type = MSO_AUTO_SHAPE
       /\ ~ ( /\ \/ Contains(N_rectangle, Lower(shape.name))
                 \/ Contains(N_rect, Lower(shape.name))
              /\ HasNonEmptyText(shape)
              /\ Len(Strip(shape.text)) > MinRectTextLen )

visual_graphics(slide) == SelectSeq(content_objects(slide), IsVisualGraphic)

CountType(seq, type) == Len(SelectSeq(seq, LAMBDA sh : sh.shape_type = type))

has_connectors(slide) ==
    LET content == content_objects(slide) IN
        \E i \in 1..Len(content) : Contains(N_connector, Lower(content[i].name))

has_groups(slide) ==
    LET content == content_objects(slide) IN
        \E i \in 1..Len(content) : content[i].has_shapes

\* the complexity criteria, had "num_pictures > 0" been left out
is_complex_NoPictures(slide) ==
    LET num_content_objects == Len(content_objects(slide))
        num_visual_graphics == Len(visual_graphics(slide))
        num_tables == CountType(content_objects(slide), MSO_TABLE)
    IN \/ num_content_objects > MaxContentObjects
       \/ num_visual_graphics > MaxVisualGraphics
       \/ has_connectors(slide)
       \/ has_groups(slide)
       \/ num_tables > 0 /\ num_visual_graphics > 0

\* the complexity criteria, had the object count been compared with ">="
is_complex_AtLeast(slide) ==
    LET num_content_objects == Len(content_objects(slide))
        num_visual_graphics == Len(visual_graphics(slide))
        num_pictures == CountType(content_objects(slide), MSO_PICTURE)
        num_tables == CountType(content_objects(slide), MSO_TABLE)
    IN \/ num_content_objects >= MaxContentObjects
       \/ num_visual_graphics > MaxVisualGraphics
       \/ has_connectors(slide)
       \/ has_groups(slide)
       \/ num_pictures > 0
       \/ num_tables > 0 /\ num_visual_graphics > 0

\* the complexity criteria
is_complex(slide) ==
    LET num_content_objects == Len(content_objects(slide))
        num_visual_graphics == Len(visual_graphics(slide))
        num_pictures == CountType(content_objects(slide), MSO_PICTURE)
        num_tables == CountType(content_objects(slide), MSO_TABLE)
    IN \/ num_content_objects > MaxContentObjects
       \/ num_visual_graphics > MaxVisualGraphics
       \/ has_connectors(slide)
       \/ has_groups(slide)
       \/ num_pictures > 0
       \/ num_tables > 0 /\ num_visual_graphics > 0

\* an exception inside the try block: shape_type of a content object raises,
\* or the text of a content auto shape raises
AnalysisRaises(slide) ==
    LET content == content_objects(slide) IN
        \E i \in 1..Len(content) :
            \/ content[i].type_raises
            \/ content[i].shape_type = MSO_AUTO_SHAPE /\ content[i].text_raises

\* _is_complex_slide(slide): "Default to simple if analysis fails"
IsComplexSlide(slide) == IF AnalysisRaises(slide) THEN FALSE ELSE is_complex(slide)

----------------------------------------------------------------------------
(* _separate_table_slides and _separate_slides_by_complexity *)

\* the scan for a table stops at the first table (break); shape_type of a
\* shape before it may raise
RECURSIVE TableScan(_)
TableScan(slide) ==
    IF slide = <<>> THEN "none"
    ELSE IF Head(slide).type_raises THEN "raises"
    ELSE IF Head(slide).shape_type = MSO_TABLE THEN "table"
    ELSE TableScan(Tail(slide))

\* _separate_table_slides: (table_slides, regular_slides); on any exception
\* ([], valid_slides)
SeparateTableSlides(d, valid, open) ==
    IF open /\ \A k \in 1..Len(valid) : TableScan(d[valid[k]]) # "raises"
    THEN [logged |-> FALSE,
          table |-> SelectIdx(valid, {i \in ToSet(valid) : TableScan(d[i]) = "table"}),
          regular |-> SelectIdx(valid, {i \in ToSet(valid) : TableScan(d[i]) # "table"})]
    ELSE [logged |-> TRUE, table |-> <<>>, regular |-> valid]

has_table(slide) == \E j \in 1..Len(slide) : slide[j].shape_type = MSO_TABLE

has_textbox(slide) ==
    \E j \in 1..Len(slide) :
        slide[j].shape_type = MSO_TEXT_BOX /\ HasNonEmptyText(slide[j])

\* the table / text box scan of a slide that is not complex raises
StepBRaises(slide) ==
    \E j \in 1..Len(slide) :
        \/ slide[j].type_raises
        \/ slide[j].shape_type = MSO_TEXT_BOX /\ slide[j].text_raises

\* the branch taken after the scan
StepBCategory(hasTable, hasTextbox) ==
    IF hasTable /\ hasTextbox THEN "complex"
    ELSE IF hasTable THEN "table"
    ELSE "simple"

\* the list a slide is appended to on the normal path
Category(slide) ==
    IF IsComplexSlide(slide) THEN "complex"
    ELSE StepBCategory(has_table(slide), has_textbox(slide))

\* the loop raises at the first valid slide that is not complex and whose
\* scan raises
LoopRaises(d, valid) ==
    \E k \in 1..Len(valid) : ~IsComplexSlide(d[valid[k]]) /\ StepBRaises(d[valid[k]])

\* the fallback of _separate_slides_by_complexity
ComplexityFallback(d, valid, open2) ==
    LET sep == SeparateTableSlides(d, valid, open2) IN
        [path |-> IF sep.logged THEN "fallback_failed" ELSE "fallback",
         table |-> sep.table, complex |-> <<>>, simple |-> sep.regular]

\* _separate_slides_by_complexity, had the "elif has_table" branch not
\* excluded the final append to simple_slides
SeparateSlidesByComplexity_NoElse(d, valid, open1, open2) ==
    IF open1 /\ ~LoopRaises(d, valid)
    THEN [path |-> "normal",
          table |-> SelectIdx(valid, {i \in ToSet(valid) : Category(d[i]) = "table"}),
          complex |-> SelectIdx(valid, {i \in ToSet(valid) : Category(d[i]) = "complex"}),
          simple |-> SelectIdx(valid, {i \in ToSet(valid) : Category(d[i]) # "complex"})]
    ELSE ComplexityFallback(d, valid, open2)

\* _separate_slides_by_complexity: open1 is the Presentation() call of the
\* try block, open2 the one of _separate_table_slides
SeparateSlidesByComplexity(d, valid, open1, open2) ==
    IF open1 /\ ~LoopRaises(d, valid)
    THEN [path |-> "normal",
          table |-> SelectIdx(valid, {i \in ToSet(valid) : Category(d[i]) = "table"}),
          complex |-> SelectIdx(valid, {i \in ToSet(valid) : Category(d[i]) = "complex"}),
          simple |-> SelectIdx(valid, {i \in ToSet(valid) : Category(d[i]) = "simple"})]
    ELSE ComplexityFallback(d, valid, open2)

----------------------------------------------------------------------------
(* _extract_text_from_table and _extract_text_from_slide *)

\* sep.join(parts)
RECURSIVE Join(_, _)
Join(parts, sep) ==
    IF parts = <<>> THEN <<>>
    ELSE IF Len(parts) = 1 THEN parts[1]
    ELSE parts[1] \o sep \o Join(Tail(parts), sep)

\* [f(x) for x in seq if f(x)] for string-valued f
RECURSIVE NonEmptyStripped(_)
NonEmptyStripped(texts) ==
    IF texts = <<>> THEN <<>>
    ELSE (IF Strip(Head(texts)) # <<>> THEN <<Strip(Head(texts))>> ELSE <<>>)
         \o NonEmptyStripped(Tail(texts))

RowText_KeepsBlankCells(row) ==
    Join([i \in 1..Len(row) |-> Strip(row[i])], <<" ", "|", " ">>)

\* one row: its non-empty stripped cell texts joined with " | "
RowText(row) == Join(NonEmptyStripped(row), <<" ", "|", " ">>)

RECURSIVE RowTexts(_)
RowTexts(rows) ==
    IF rows = <<>> THEN <<>>
    ELSE (IF NonEmptyStripped(Head(rows)) # <<>> THEN <<RowText(Head(rows))>> ELSE <<>>)
         \o RowTexts(Tail(rows))

\* _extract_text_from_table
ExtractTextFromTable(shape) == Join(RowTexts(shape.cells), <<NL>>)

\* the parts one shape contributes; an exception ends the shape's turn and
\* keeps what it had appended
ShapeTextParts(shape) ==
    IF shape.text_raises THEN <<>>
    ELSE LET own == IF HasNonEmptyText(shape) THEN <<Strip(shape.text)>> ELSE <<>> IN
         IF shape.type_raises THEN own
         ELSE own
              \o (IF shape.shape_type = MSO_TABLE /\ ExtractTextFromTable(shape) # <<>>
                  THEN <<ExtractTextFromTable(shape)>> ELSE <<>>)
              \o (IF shape.has_shapes THEN NonEmptyStripped(shape.sub_texts) ELSE <<>>)

RECURSIVE SlideTextParts(_)
SlideTextParts(slide) ==
    IF slide = <<>> THEN <<>>
    ELSE ShapeTextParts(Head(slide)) \o SlideTextParts(Tail(slide))

\* _extract_text_from_slide
ExtractTextFromSlide(slide) == Join(SlideTextParts(slide), <<NL>>)

----------------------------------------------------------------------------
(* _convert_slide_to_image_and_process and _process_slide_image_with_gemini *)

\* what call_gemini may answer
Replies == { <<"o", "k">>, <<" ">> }

\* what the collaborators do for one slide: preparing the export raises,
\* the exporter yields no image, the description service raises, or it
\* answers with a reply
Outcomes ==
    {[kind |-> k, reply |-> <<>>] : k \in {"export_raises", "export_failed", "gemini_raises"}}
    \cup {[kind |-> "reply", reply |-> r] : r \in Replies}

\* The strings the two methods return, by their template: the reply of the
\* service ("description"), "[No content extracted from slide n]",
\* "[Error processing slide n with Gemini: e]", the "(text-only fallback)"
\* block, "[Slide n: Image processing failed and no text content available]"
\* and "[Error processing slide n: e]".
Description(kind, slide_idx, text) == [kind |-> kind, slide |-> slide_idx, text |-> text]

\* _process_slide_image_with_gemini
ProcessSlideImageWithGemini(slide_idx, outcome) ==
    IF outcome.kind = "gemini_raises" THEN Description("gemini_error", slide_idx, <<>>)
    ELSE IF Strip(outcome.reply) # <<>>
         THEN Description("description", slide_idx, Strip(outcome.reply))
         ELSE Description("no_content", slide_idx, <<>>)

\* _convert_slide_to_image_and_process, had it given up without looking at
\* the slide's text when no image was exported
ConvertSlideToImageAndProcess_NoFallback(slide, slide_idx, outcome) ==
    IF outcome.kind = "export_raises" THEN Description("error", slide_idx, <<>>)
    ELSE IF outcome.kind # "export_failed"
         THEN ProcessSlideImageWithGemini(slide_idx, outcome)
         ELSE Description("image_failed", slide_idx, <<>>)

\* _convert_slide_to_image_and_process
ConvertSlideToImageAndProcess(slide, slide_idx, outcome) ==
    IF outcome.kind = "export_raises" THEN Description("error", slide_idx, <<>>)
    ELSE IF outcome.kind # "export_failed"
         THEN ProcessSlideImageWithGemini(slide_idx, outcome)
         ELSE IF Strip(ExtractTextFromSlide(slide)) # <<>>
              THEN Description("text_fallback", slide_idx, ExtractTextFromSlide(slide))
              ELSE Description("image_failed", slide_idx, <<>>)

----------------------------------------------------------------------------
(* _process_table_slides and _process_complex_slides_with_gemini *)

\* A dict is the sequence of its entries in insertion order.

\* the entries for the slides of `slides`, in that order
RECURSIVE TableEntries(_, _, _)
TableEntries(d, slides, outcome) ==
    IF slides = <<>> THEN <<>>
    ELSE << [slide_number |-> Head(slides),
             description |->
                 ConvertSlideToImageAndProcess(d[Head(slides)], Head(slides), outcome[Head(slides)]),
             extracted_text |-> ExtractTextFromSlide(d[Head(slides)])] >>
         \o TableEntries(d, Tail(slides), outcome)

\* _process_table_slides: nothing to do, or the records; {} when the
\* presentation cannot be opened
ProcessTableSlides(d, slides, open, outcome) ==
    IF slides = <<>> THEN [logged |-> FALSE, value |-> <<>>]
    ELSE IF ~open THEN [logged |-> TRUE, value |-> <<>>]
    ELSE [logged |-> FALSE, value |-> TableEntries(d, slides, outcome)]

\* obj_types = [shape.shape_type for shape in slide.shapes] raises
ObjTypesRaises(slide) == \E j \in 1..Len(slide) : slide[j].type_raises

\* f"## {metadata}\n\n{slide_description}" under its key
RECURSIVE ComplexEntries(_, _, _)
ComplexEntries(d, slides, outcome) ==
    IF slides = <<>> THEN <<>>
    ELSE << [key |-> Head(slides),
             metadata |-> Head(slides),
             description |->
                 ConvertSlideToImageAndProcess(d[Head(slides)], Head(slides), outcome[Head(slides)])] >>
         \o ComplexEntries(d, Tail(slides), outcome)

\* _process_complex_slides_with_gemini: an exception anywhere in the loop
\* returns {}
ProcessComplexSlidesWithGemini(d, slides, open, outcome) ==
    IF slides = <<>> THEN [logged |-> FALSE, value |-> <<>>]
    ELSE IF ~open \/ \E k \in 1..Len(slides) : ObjTypesRaises(d[slides[k]])
         THEN [logged |-> TRUE, value |-> <<>>]
         ELSE [logged |-> FALSE, value |-> ComplexEntries(d, slides, outcome)]

----------------------------------------------------------------------------
(* _extract_fallback_text_from_slides and _process_simple_slides_with_text_extraction *)

DigitChar(n) ==
    CASE n = 0 -> "0" [] n = 1 -> "1" [] n = 2 -> "2" [] n = 3 -> "3" [] n = 4 -> "4"
      [] n = 5 -> "5" [] n = 6 -> "6" [] n = 7 -> "7" [] n = 8 -> "8" [] n = 9 -> "9"

\* str(n) for n >= 0
RECURSIVE IntToStr(_)
IntToStr(n) == IF n < 10 THEN <<DigitChar(n)>> ELSE IntToStr(n \div 10) \o <<DigitChar(n % 10)>>

\* f"{source_file}:slide-{slide_idx}"
SourceId(slide_idx) == DocName \o SLIDE_TAG \o IntToStr(slide_idx)

\* a simple slide whose text cannot be read is skipped (continue)
SlideReadRaises(slide) == \E j \in 1..Len(slide) : slide[j].text_raises

RECURSIVE ShapeTexts(_)
ShapeTexts(slide) ==
    IF slide = <<>> THEN <<>>
    ELSE (IF HasNonEmptyText(Head(slide)) THEN <<Strip(Head(slide).text)>> ELSE <<>>)
         \o ShapeTexts(Tail(slide))

\* slide_content of one slide
SlideContent(slide, slide_idx) ==
    <<"#", "#", " ">> \o SourceId(slide_idx) \o <<NL, NL>> \o Join(ShapeTexts(slide), <<NL, NL>>)

RECURSIVE FallbackContent(_, _)
FallbackContent(d, slides) ==
    IF slides = <<>> THEN <<>>
    ELSE (IF ~SlideReadRaises(d[Head(slides)]) /\ ShapeTexts(d[Head(slides)]) # <<>>
          THEN <<SlideContent(d[Head(slides)], Head(slides))>> ELSE <<>>)
         \o FallbackContent(d, Tail(slides))

\* _extract_fallback_text_from_slides
ExtractFallbackTextFromSlides(d, slides, open) ==
    IF ~open THEN <<>> ELSE Join(FallbackContent(d, slides), <<NL, NL>>)

\* _process_simple_slides_with_text_extraction
ProcessSimpleSlidesWithTextExtraction(d, slides, open) ==
    IF slides = <<>> THEN <<>> ELSE ExtractFallbackTextFromSlides(d, slides, open)

----------------------------------------------------------------------------
(* _extract_title_from_section and _extract_sections_from_markdown *)

MaxTitleLineLen == 100

MaxTitleLen == 80

MaxFallbackTitleLen == 50

MinSectionLen == 50

\* s.split(sep) for a non-empty sep
RECURSIVE Split(_, _)
Split(s, sep) ==
    IF ~Contains(sep, s) THEN <<s>>
    ELSE LET i == CHOOSE k \in 0..(Len(s) - Len(sep)) :
                      /\ SubSeq(s, k + 1, k + Len(sep)) = sep
                      /\ \A m \in 0..(k - 1) : SubSeq(s, m + 1, m + Len(sep)) # sep
         IN <<SubSeq(s, 1, i)>> \o Split(SubSeq(s, i + Len(sep) + 1, Len(s)), sep)

\* re.sub(r'[chars]+', '', s)
Remove(s, chars) == SelectSeq(s, LAMBDA c : c \notin chars)

\* s[:n]
Prefix(s, n) == SubSeq(s, 1, IF Len(s) < n THEN Len(s) ELSE n)

IsTitleLine(line) ==
    /\ Strip(line) # <<>>
    /\ Head(Strip(line)) # "!"
    /\ Len(Strip(line)) < MaxTitleLineLen
    /\ Strip(Remove(Strip(line), {"#", "*", "-"})) # <<>>

\* _extract_title_from_section, had it taken the first short line even when
\* it is an image reference
ExtractTitleFromSection_ImageLines(section) ==
    LET lines == Split(section, <<NL>>)
        clean == Strip(Remove(section, {"#", "*", "-", "!"}))
        short(line) == Strip(line) # <<>> /\ Len(Strip(line)) < MaxTitleLineLen
                       /\ Strip(Remove(Strip(line), {"#", "*", "-"})) # <<>>
    IN IF \E k \in 1..Len(lines) : short(lines[k])
       THEN LET k == CHOOSE j \in 1..Len(lines) :
                        short(lines[j]) /\ \A m \in 1..(j - 1) : ~short(lines[m])
            IN Prefix(Strip(Remove(Strip(lines[k]), {"#", "*", "-"})), MaxTitleLen)
       ELSE IF Len(clean) > MaxFallbackTitleLen
            THEN Prefix(clean, MaxFallbackTitleLen) \o <<".", ".", ".">>
            ELSE clean

\* _extract_title_from_section
ExtractTitleFromSection(section) ==
    LET lines == Split(section, <<NL>>)
        clean == Strip(Remove(section, {"#", "*", "-", "!"}))
    IN IF \E k \in 1..Len(lines) : IsTitleLine(lines[k])
       THEN LET k == CHOOSE j \in 1..Len(lines) :
                        IsTitleLine(lines[j]) /\ \A m \in 1..(j - 1) : ~IsTitleLine(lines[m])
            IN Prefix(Strip(Remove(Strip(lines[k]), {"#", "*", "-"})), MaxTitleLen)
       ELSE IF Len(clean) > MaxFallbackTitleLen
            THEN Prefix(clean, MaxFallbackTitleLen) \o <<".", ".", ".">>
            ELSE clean

\* the records of pages[i..], page i being attributed to slide i
RECURSIVE SectionRecords(_, _)
SectionRecords(pages, i) ==
    IF i > Len(pages) THEN <<>>
    ELSE (IF Strip(pages[i]) # <<>> /\ Len(Strip(pages[i])) > MinSectionLen
          THEN << [source |-> SourceId(i),
                   title |-> ExtractTitleFromSection(Strip(pages[i])),
                   content |-> [kind |-> "section", slide |-> i, text |-> Strip(pages[i])]] >>
          ELSE <<>>)
         \o SectionRecords(pages, i + 1)

\* _extract_sections_from_markdown
ExtractSectionsFromMarkdown(markdown) == SectionRecords(Split(markdown, <<NL, NL>>), 1)

----------------------------------------------------------------------------
(* _process_csvs_and_combine_results *)

\* the insertion step of sorted(keys, reverse=True)
RECURSIVE Insert_Descending(_, _)
Insert_Descending(k, sorted) ==
    IF sorted = <<>> THEN <<k>>
    ELSE IF k > Head(sorted) THEN <<k>> \o sorted
    ELSE <<Head(sorted)>> \o Insert_Descending(k, Tail(sorted))

\* sorted(keys)
RECURSIVE Insert(_, _)
Insert(k, sorted) ==
    IF sorted = <<>> THEN <<k>>
    ELSE IF k < Head(sorted) THEN <<k>> \o sorted
    ELSE <<Head(sorted)>> \o Insert(k, Tail(sorted))

RECURSIVE Sorted(_)
Sorted(keys) == IF keys = <<>> THEN <<>> ELSE Insert(Head(keys), Sorted(Tail(keys)))

\* complex_slide_descriptions.keys() and complex_slide_descriptions[k]
ComplexKeys(complex) == [i \in 1..Len(complex) |-> complex[i].key]

ComplexAt(complex, k) == complex[CHOOSE i \in 1..Len(complex) : complex[i].key = k]

\* processed_tables.keys() and processed_tables[k]
TableKeys(tables) == [i \in 1..Len(tables) |-> tables[i].slide_number]

TableAt(tables, k) == tables[CHOOSE i \in 1..Len(tables) : tables[i].slide_number = k]

\* enhanced_markdown: the "# Simple Slides" block, then the "# Complex
\* Slides" entries by ascending key, then the "# Table Slides" entries by
\* ascending key
EnhancedMarkdown(markdown, tables, complex) ==
    (IF markdown # <<>>
     THEN << [section |-> "simple", header |-> 0,
              content |-> [kind |-> "text", slide |-> 0, text |-> markdown]] >>
     ELSE <<>>)
    \o [i \in 1..Len(complex) |->
            [section |-> "complex",
             header |-> ComplexAt(complex, Sorted(ComplexKeys(complex))[i]).metadata,
             content |-> ComplexAt(complex, Sorted(ComplexKeys(complex))[i]).description]]
    \o [i \in 1..Len(tables) |->
            [section |-> "table",
             header |-> Sorted(TableKeys(tables))[i],
             content |-> TableAt(tables, Sorted(TableKeys(tables))[i]).description]]

T_ComplexSlide == <<"C", "o", "m", "p", "l", "e", "x", " ", "S", "l", "i", "d", "e", " ">>

T_TableSlide == <<"T", "a", "b", "l", "e", " ", "S", "l", "i", "d", "e", " ">>

T_Analysis == <<" ", "A", "n", "a", "l", "y", "s", "i", "s">>

\* markdown_data, had the records been appended in the order the strategies
\* ran: table, complex, simple
MarkdownData_ExtractionOrder(markdown, tables, complex) ==
    [i \in 1..Len(tables) |->
        [source |-> SourceId(tables[i].slide_number),
         title |-> T_TableSlide \o IntToStr(tables[i].slide_number) \o T_Analysis,
         content |-> tables[i].description]]
    \o [i \in 1..Len(complex) |->
            [source |-> SourceId(complex[i].key),
             title |-> T_ComplexSlide \o IntToStr(complex[i].key) \o T_Analysis,
             content |-> [kind |-> "complex", slide |-> complex[i].metadata,
                          text |-> complex[i].description.text,
                          description |-> complex[i].description]]]
    \o (IF markdown # <<>> THEN ExtractSectionsFromMarkdown(markdown) ELSE <<>>)

\* markdown_data, had the complex and table records been numbered by their
\* position like the sections of the simple text
MarkdownData_Sequential(markdown, tables, complex) ==
    (IF markdown # <<>> THEN ExtractSectionsFromMarkdown(markdown) ELSE <<>>)
    \o [i \in 1..Len(complex) |->
            [source |-> SourceId(i),
             title |-> T_ComplexSlide \o IntToStr(i) \o T_Analysis,
             content |-> [kind |-> "complex", slide |-> complex[i].metadata,
                          text |-> complex[i].description.text,
                          description |-> complex[i].description]]]
    \o [i \in 1..Len(tables) |->
            [source |-> SourceId(i),
             title |-> T_TableSlide \o IntToStr(i) \o T_Analysis,
             content |-> tables[i].description]]

\* markdown_data: the sections of the simple text, then one record per
\* complex entry and one per table entry, in the dicts' own order
MarkdownData(markdown, tables, complex) ==
    (IF markdown # <<>> THEN ExtractSectionsFromMarkdown(markdown) ELSE <<>>)
    \o [i \in 1..Len(complex) |->
            [source |-> SourceId(complex[i].key),
             title |-> T_ComplexSlide \o IntToStr(complex[i].key) \o T_Analysis,
             content |-> [kind |-> "complex", slide |-> complex[i].metadata,
                          text |-> complex[i].description.text,
                          description |-> complex[i].description]]]
    \o [i \in 1..Len(tables) |->
            [source |-> SourceId(tables[i].slide_number),
             title |-> T_TableSlide \o IntToStr(tables[i].slide_number) \o T_Analysis,
             content |-> tables[i].description]]

TableProcessingResults(tables) ==
    [i \in 1..Len(tables) |->
        [slide_number |-> tables[i].slide_number,
         processing_method |-> "gemini_vision_only",
         source |-> SourceId(tables[i].slide_number)]]

\* the dict of the except branch: it has no 'success' key
MergeErrorResult ==
    [file_type |-> "powerpoint_text_extraction",
     source_file |-> DocName,
     error |-> "OSError",
     markdown_data |-> <<>>,
     table_processing_results |-> <<>>]

\* _process_csvs_and_combine_results: write says whether the final markdown
\* file could be written, pipeline what _run_3_agent_pipeline_for_markdown did
ProcessCsvsAndCombineResults(markdown, tables, rawSaved, complex, write, pipeline) ==
    IF ~write THEN MergeErrorResult
    ELSE LET markdown_data == MarkdownData(markdown, tables, complex) IN
         [file_type |-> "powerpoint_text_extraction",
          source_file |-> DocName,
          total_markdown_entries |-> Len(markdown_data),
          total_table_slides_processed |-> Len(tables),
          total_complex_slides_identified |-> Len(complex),
          raw_ocr_markdown_file |-> rawSaved,
          enhanced_markdown |-> EnhancedMarkdown(markdown, tables, complex),
          enhanced_markdown_pipeline_result |->
              IF pipeline = "raises" THEN [error |-> "Exception"] ELSE [status |-> pipeline],
          markdown_data |-> markdown_data,
          table_processing_results |-> TableProcessingResults(tables),
          complex_slides_info |-> complex,
          table_slides_info |-> tables,
          summary |->
              [markdown_entries |-> Len(markdown_data),
               table_slides_processed_with_gemini |-> Len(tables),
               complex_slides_identified |-> Len(complex),
               complex_slides_processed |-> Len(complex),
               enhanced_markdown_pipeline_success |-> pipeline = "success"]]

----------------------------------------------------------------------------
(* process_powerpoint_with_text_extraction and process_powerpoint_file *)

NoResult == [pending |-> TRUE]

\* the dict of the except branch of process_powerpoint_file
FailureResult(exception_type) ==
    [success |-> FALSE, error |-> exception_type, exception_type |-> exception_type]

\* whether Presentation(path) returns: it raises on a corrupt file
OpenOutcomes == {~corrupt}

Init ==
    /\ corrupt \in BOOLEAN
    /\ doc \in IF corrupt THEN {<<>>} ELSE Docs
    /\ pc = "start"
    /\ steps = {}
    /\ errors = {}
    /\ valid_slides = <<>>
    /\ removed_slides = <<>>
    /\ table_slides = <<>>
    /\ complex_slides = <<>>
    /\ simple_slides = <<>>
    /\ processed_tables = <<>>
    /\ complex_slide_descriptions = <<>>
    /\ outcomes = <<>>
    /\ writes = {}
    /\ attempts = <<>>
    /\ markdown_content = <<>>
    /\ raw_saved = FALSE
    /\ result = NoResult

\* processor = PowerPointProcessor(): __init__ creates the output
\* directories and the slide exporter; an exception there leaves the entry
\* point, which has no handler
Construct ==
    /\ pc = "start"
    /\ \E ok \in BOOLEAN : pc' = IF ok THEN "filter" ELSE "raised"
    /\ UNCHANGED <<writes, attempts, outcomes,
                   doc, corrupt, steps, errors, valid_slides, removed_slides,
                   table_slides, complex_slides, simple_slides, processed_tables,
                   complex_slide_descriptions, markdown_content, raw_saved, result>>

\* STEP 1: _filter_useless_slides; what it raises is caught by
\* process_powerpoint_file
StepFilter ==
    /\ pc = "filter"
    /\ \E open1, open2 \in OpenOutcomes :
        LET r == FilterUselessSlides(doc, open1, open2) IN
            /\ steps' = steps \cup {1}
            /\ errors' = IF r.logged THEN errors \cup {"filter"} ELSE errors
            /\ valid_slides' = r.valid
            /\ removed_slides' = r.removed
            /\ pc' = IF r.raised THEN "done" ELSE "classify"
            /\ result' = IF r.raised THEN FailureResult("PackageNotFoundError") ELSE result
    /\ UNCHANGED <<writes, attempts, outcomes,
                   doc, corrupt, table_slides, complex_slides, simple_slides,
                   processed_tables, complex_slide_descriptions, markdown_content,
                   raw_saved>>

\* STEP 2: _separate_slides_by_complexity
StepClassify ==
    /\ pc = "classify"
    /\ \E open1, open2 \in OpenOutcomes :
        LET r == SeparateSlidesByComplexity(doc, valid_slides, open1, open2) IN
            /\ errors' = errors \cup (IF r.path = "normal" THEN {} ELSE {"complexity"})
                                \cup (IF r.path = "fallback_failed" THEN {"table_separation"} ELSE {})
            /\ table_slides' = r.table
            /\ complex_slides' = r.complex
            /\ simple_slides' = r.simple
    /\ steps' = steps \cup {2}
    /\ pc' = "tables"
    /\ UNCHANGED <<writes, attempts, outcomes,
                   doc, corrupt, valid_slides, removed_slides, processed_tables,
                   complex_slide_descriptions, markdown_content, raw_saved, result>>

\* STEP 3: _process_table_slides
StepTables ==
    /\ pc = "tables"
    /\ \E open \in OpenOutcomes : \E outcome \in [ToSet(table_slides) -> Outcomes] :
        LET r == ProcessTableSlides(doc, table_slides, open, outcome) IN
            /\ errors' = IF r.logged THEN errors \cup {"tables"} ELSE errors
            /\ processed_tables' = r.value
            /\ outcomes' = IF r.value = <<>> THEN outcomes ELSE outcome @@ outcomes
    /\ steps' = steps \cup {3}
    /\ pc' = "complex"
    /\ UNCHANGED <<writes, attempts, doc, corrupt, valid_slides, removed_slides, table_slides,
                   complex_slides, simple_slides, complex_slide_descriptions,
                   markdown_content, raw_saved, result>>

\* STEP 4: _process_complex_slides_with_gemini
StepComplex ==
    /\ pc = "complex"
    /\ \E open \in OpenOutcomes : \E outcome \in [ToSet(complex_slides) -> Outcomes] :
        LET r == ProcessComplexSlidesWithGemini(doc, complex_slides, open, outcome) IN
            /\ errors' = IF r.logged THEN errors \cup {"complex"} ELSE errors
            /\ complex_slide_descriptions' = r.value
            /\ outcomes' = IF r.value = <<>> THEN outcomes ELSE outcome @@ outcomes
    /\ steps' = steps \cup {4}
    /\ pc' = "simple"
    /\ UNCHANGED <<writes, attempts, doc, corrupt, valid_slides, removed_slides, table_slides,
                   complex_slides, simple_slides, processed_tables,
                   markdown_content, raw_saved, result>>

\* STEP 5: _process_simple_slides_with_text_extraction
StepSimple ==
    /\ pc = "simple"
    /\ \E open \in OpenOutcomes :
        markdown_content' = ProcessSimpleSlidesWithTextExtraction(doc, simple_slides, open)
    /\ steps' = steps \cup {5}
    /\ pc' = "save"
    /\ UNCHANGED <<writes, attempts, outcomes,
                   doc, corrupt, errors, valid_slides, removed_slides, table_slides,
                   complex_slides, simple_slides, processed_tables,
                   complex_slide_descriptions, raw_saved, result>>

\* STEP 5.1: the raw text extraction markdown is written when there is
\* markdown content; an I/O error is caught by process_powerpoint_file
StepSaveRaw ==
    /\ pc = "save"
    /\ \E write \in BOOLEAN :
        IF markdown_content = <<>>
        THEN raw_saved' = FALSE /\ pc' = "merge" /\ result' = result
        ELSE IF write
             THEN raw_saved' = TRUE /\ pc' = "merge" /\ result' = result
             ELSE raw_saved' = FALSE /\ pc' = "done" /\ result' = FailureResult("OSError")
    /\ UNCHANGED <<writes, attempts, outcomes,
                   doc, corrupt, steps, errors, valid_slides, removed_slides,
                   table_slides, complex_slides, simple_slides, processed_tables,
                   complex_slide_descriptions, markdown_content>>

\* STEP 6: _process_csvs_and_combine_results, whose value is returned
StepMerge ==
    /\ pc = "merge"
    /\ \E write \in BOOLEAN : \E pipeline \in {"success", "failed", "raises"} :
        /\ result' = ProcessCsvsAndCombineResults(markdown_content, processed_tables,
                         raw_saved, complex_slide_descriptions, write, pipeline)
        /\ errors' = IF write THEN errors ELSE errors \cup {"merge"}
    /\ steps' = steps \cup {6}
    /\ pc' = "done"
    /\ UNCHANGED <<writes, attempts, outcomes,
                   doc, corrupt, valid_slides, removed_slides, table_slides,
                   complex_slides, simple_slides, processed_tables,
                   complex_slide_descriptions, markdown_content, raw_saved>>

Next ==
    \/ Construct
    \/ StepFilter
    \/ StepClassify
    \/ StepTables
    \/ StepComplex
    \/ StepSimple
    \/ StepSaveRaw
    \/ StepMerge

Spec == Init /\ [][Next]_vars

----------------------------------------------------------------------------
(* _is_complex_slide applied to one slide *)

MaxTextBoxes == 6

MaxOtherShapes == 3

T_RevenueUp == <<"R", "e", "v", "e", "n", "u", "e", " ", "u", "p">>

N_Line == <<"L", "i", "n", "e">>

N_StraightConnector ==
    <<"S", "t", "r", "a", "i", "g", "h", "t", " ", "C", "o", "n", "n", "e", "c", "t", "o", "r">>

N_Rectangle == <<"R", "e", "c", "t", "a", "n", "g", "l", "e">>

N_Group == <<"G", "r", "o", "u", "p">>

N_Title == <<"T", "i", "t", "l", "e">>

S_Line == Shape(MSO_LINE, N_Line, FALSE, <<>>)

S_Connector == Shape(MSO_LINE, N_StraightConnector, FALSE, <<>>)

\* a rectangle holding 13 characters of text, one holding 10, and an oval
S_Rectangle == Shape(MSO_AUTO_SHAPE, N_Rectangle, TRUE, T_Revenue)

S_ShortRectangle == Shape(MSO_AUTO_SHAPE, N_Rectangle, TRUE, T_RevenueUp)

S_Oval == Shape(MSO_AUTO_SHAPE, N_Oval, TRUE, T_Revenue)

\* a group shape (it has .shapes) and a title placeholder (it has a
\* placeholder_format); 6 and 14 are their shape types in python-pptx
S_Group ==
    [Shape(6, N_Group, FALSE, <<>>) EXCEPT !.has_shapes = TRUE, !.sub_texts = <<T_Revenue>>]

S_Title == [Shape(14, N_Title, TRUE, T_Revenue) EXCEPT !.is_ph = TRUE]

AnalysisCatalog ==
    {S_TextBox, S_Table, S_Picture, S_FooterPicture, S_Line, S_Connector,
     S_Rectangle, S_ShortRectangle, S_Oval, S_Group, S_Title, S_Unsupported, S_BadText}

\* the slides analysed: up to MaxTextBoxes text boxes, then up to
\* MaxOtherShapes shapes of any kind
AnalysisSlides ==
    {[j \in 1..n |-> S_TextBox] \o rest :
        n \in 0..MaxTextBoxes,
        rest \in UNION {[1..m -> AnalysisCatalog] : m \in 0..MaxOtherShapes}}

AnalysisInit ==
    /\ corrupt = FALSE
    /\ doc \in {<<slide>> : slide \in AnalysisSlides}
    /\ pc = "analyse"
    /\ steps = {}
    /\ errors = {}
    /\ valid_slides = <<1>>
    /\ removed_slides = <<>>
    /\ table_slides = <<>>
    /\ complex_slides = <<>>
    /\ simple_slides = <<>>
    /\ processed_tables = <<>>
    /\ complex_slide_descriptions = <<>>
    /\ outcomes = <<>>
    /\ writes = {}
    /\ attempts = <<>>
    /\ markdown_content = <<>>
    /\ raw_saved = FALSE
    /\ result = NoResult

\* is_complex = self._is_complex_slide(slide)
AnalyseSlide ==
    /\ pc = "analyse"
    /\ result' = [is_complex |-> IsComplexSlide(doc[1])]
    /\ errors' = IF AnalysisRaises(doc[1]) THEN {"analysis"} ELSE {}
    /\ pc' = "analysed"
    /\ UNCHANGED <<writes, attempts, outcomes,
                   doc, corrupt, steps, valid_slides, removed_slides, table_slides,
                   complex_slides, simple_slides, processed_tables,
                   complex_slide_descriptions, markdown_content, raw_saved>>

AnalysisNext == AnalyseSlide

SpecAnalysis == AnalysisInit /\ [][AnalysisNext]_vars

-----------------------------------------------------------------------------
(* the slide export methods and the LibreOffice conversion chain, each
   applied to the slides of one presentation *)

MaxSecond == 1

\* datetime.now().strftime('%Y%m%d_%H%M%S'), for the seconds of one minute
Timestamp(second) ==
    <<"2", "0", "2", "4", "0", "1", "0", "1", "_", "1", "2", "0", "0">>
        \o (IF second < 10 THEN <<"0">> ELSE <<>>) \o IntToStr(second)

\* os.path.basename(source_file).replace('.pptx', '').replace(' ', '_')
safe_filename == SubSeq(DocName, 1, Len(DocName) - 5)

\* output_dir / f"slide_{slide_idx}_{safe_filename}_{timestamp}.png"
image_filename(slide_idx, timestamp) ==
    <<"s", "l", "i", "d", "e", "_", "i", "m", "a", "g", "e", "s", "/">>
        \o <<"s", "l", "i", "d", "e", "_">> \o IntToStr(slide_idx) \o <<"_">>
        \o safe_filename \o <<"_">> \o timestamp \o <<".", "p", "n", "g">>

\* f"temp_export_{timestamp}"
temp_dir(timestamp) ==
    <<"t", "e", "m", "p", "_", "e", "x", "p", "o", "r", "t", "_">> \o timestamp

\* os.path.join(temp_dir, f"Slide{slide_idx}.PNG")
slide_file(timestamp, slide_idx) ==
    temp_dir(timestamp) \o <<"/", "S", "l", "i", "d", "e">> \o IntToStr(slide_idx)
        \o <<".", "P", "N", "G">>

\* os.path.splitext(os.path.basename(source_file))[0] + ".pdf"
expected_pdf == SubSeq(DocName, 1, Len(DocName) - 5) \o <<".", "p", "d", "f">>

\* what PowerPoint and the file system do to one call of method 1: the COM
\* set-up, the direct Export, ExportAsFixedFormat and shutil.rmtree
Method1Outcomes ==
    [method : {"method1"},
     direct : {"com_raises", "ok", "no_file", "raises"},
     alt : {"file", "no_file", "raises"},
     rmtree : {"removed", "kept"}]

\* _export_slide_method1_improved: whether it raised, the path it returned
\* and the paths it wrote
ExportSlideMethod1Improved(slide_idx, count, timestamp, o) ==
    LET image == image_filename(slide_idx, timestamp)
        exported == {slide_file(timestamp, n) : n \in 1..count}
        failed(written) == [raised |-> TRUE, path |-> <<>>, written |-> written]
    IN  CASE o.direct = "com_raises" \/ slide_idx > count -> failed({})
          [] o.direct = "ok" -> [raised |-> FALSE, path |-> image, written |-> {image}]
          [] o.direct = "no_file" -> failed({})
          [] OTHER ->
                \* os.makedirs(temp_dir), then ExportAsFixedFormat of all slides
                CASE o.alt = "raises" -> failed({temp_dir(timestamp)})
                  [] o.alt = "no_file" -> failed({temp_dir(timestamp)})
                  [] OTHER ->
                        \* the first block copies the file and removes temp_dir;
                        \* the second block looks for the file again
                        LET written == {temp_dir(timestamp), image} \union exported
                        IN  IF o.rmtree = "removed"
                            THEN failed(written)
                            ELSE [raised |-> FALSE, path |-> image, written |-> written]

\* what LibreOffice and PyMuPDF do to one call of method 4
Method4Outcomes ==
    [method : {"method4"},
     convert : {"pdf", "no_pdf", "not_found", "timeout"},
     fitz : {"ok", "import_error", "no_file"}]

\* _export_slide_method4_libreoffice
ExportSlideMethod4Libreoffice(slide_idx, count, timestamp, o) ==
    LET image == image_filename(slide_idx, timestamp)
        failed(written) == [raised |-> TRUE, path |-> <<>>, written |-> written]
    IN  CASE o.convert # "pdf" -> failed({})
          [] o.fitz = "import_error" \/ slide_idx > count -> failed({expected_pdf})
          [] o.fitz = "no_file" -> failed({expected_pdf})
          [] OTHER -> [raised |-> FALSE, path |-> image,
                       written |-> {expected_pdf, image}]

\* cmd[0] of each entry of commands_to_try
commands_to_try ==
    <<"C:\\Program Files\\LibreOffice\\program\\soffice.exe", "soffice", "libreoffice",
      "C:/Program Files/LibreOffice/program/soffice.exe">>

\* what one subprocess.run of the chain does: exit 0 with the PDF written,
\* non-zero exit, exit 0 without the PDF, FileNotFoundError, TimeoutExpired,
\* any other exception
AttemptOutcomes == {"ok", "nonzero", "missing_output", "not_found", "timeout", "error"}

\* pptx_path.replace('.pptx', '.pdf')
pdf_path == SubSeq(DocName, 1, Len(DocName) - 5) \o <<".", "p", "d", "f">>

RECURSIVE ConvertWithLibreoffice_TimeoutRaises(_, _, _)
ConvertWithLibreoffice_TimeoutRaises(i, outs, tried) ==
    IF i > Len(commands_to_try)
    THEN [raised |-> TRUE, path |-> <<>>, attempts |-> tried]
    ELSE LET t == Append(tried, [command |-> commands_to_try[i], outcome |-> outs[i]])
         IN  CASE outs[i] = "ok" -> [raised |-> FALSE, path |-> pdf_path, attempts |-> t]
               [] outs[i] = "timeout" -> [raised |-> TRUE, path |-> <<>>, attempts |-> t]
               [] OTHER -> ConvertWithLibreoffice_TimeoutRaises(i + 1, outs, t)

\* the loop of _convert_with_libreoffice from command i on
RECURSIVE ConvertWithLibreoffice(_, _, _)
ConvertWithLibreoffice(i, outs, tried) ==
    IF i > Len(commands_to_try)
    THEN [raised |-> TRUE, path |-> <<>>, attempts |-> tried]
    ELSE LET t == Append(tried, [command |-> commands_to_try[i], outcome |-> outs[i]])
         IN  IF outs[i] = "ok"
             THEN [raised |-> FALSE, path |-> pdf_path, attempts |-> t]
             ELSE ConvertWithLibreoffice(i + 1, outs, t)

ExportInit ==
    /\ corrupt = FALSE
    /\ doc \in {d \in Docs : \A i \in 1..Len(d) : d[i] = <<S_Picture>>}
    /\ pc \in {"export", "convert"}
    /\ steps = {}
    /\ errors = {}
    /\ valid_slides = <<>>
    /\ removed_slides = <<>>
    /\ table_slides = <<>>
    /\ complex_slides = <<>>
    /\ simple_slides = <<>>
    /\ processed_tables = <<>>
    /\ complex_slide_descriptions = <<>>
    /\ outcomes = <<>>
    /\ writes = {}
    /\ attempts = <<>>
    /\ markdown_content = <<>>
    /\ raw_saved = FALSE
    /\ result = NoResult

\* the bookkeeping shared by the two export actions
Exported(slide_idx, o, r) ==
    /\ outcomes' = (slide_idx :> o) @@ outcomes
    /\ writes' = writes \union {[slide |-> slide_idx, path |-> p] : p \in r.written}
    /\ result' = [slide |-> slide_idx, raised |-> r.raised, path |-> r.path]
    /\ UNCHANGED <<attempts, doc, corrupt, pc, steps, errors, valid_slides,
                   removed_slides, table_slides, complex_slides, simple_slides,
                   processed_tables, complex_slide_descriptions, markdown_content,
                   raw_saved>>

\* self._export_slide_method1_improved(slide, slide_idx, output_dir, timestamp, source_file)
ExportMethod1 ==
    /\ pc = "export"
    /\ \E slide_idx \in 1..Len(doc) : \E second \in 0..MaxSecond : \E o \in Method1Outcomes :
        /\ slide_idx \notin DOMAIN outcomes
        /\ Exported(slide_idx, o,
                    ExportSlideMethod1Improved(slide_idx, Len(doc), Timestamp(second), o))

\* self._export_slide_method4_libreoffice(slide_idx, source_file, output_dir, timestamp)
ExportMethod4 ==
    /\ pc = "export"
    /\ \E slide_idx \in 1..Len(doc) : \E second \in 0..MaxSecond : \E o \in Method4Outcomes :
        /\ slide_idx \notin DOMAIN outcomes
        /\ Exported(slide_idx, o,
                    ExportSlideMethod4Libreoffice(slide_idx, Len(doc), Timestamp(second), o))

\* self._convert_with_libreoffice(pptx_path)
Convert ==
    /\ pc = "convert"
    /\ \E outs \in [1..Len(commands_to_try) -> AttemptOutcomes] :
        LET r == ConvertWithLibreoffice(1, outs, <<>>)
        IN  /\ attempts' = r.attempts
            /\ result' = [raised |-> r.raised, path |-> r.path]
    /\ pc' = "converted"
    /\ UNCHANGED <<writes, outcomes, doc, corrupt, steps, errors, valid_slides,
                   removed_slides, table_slides, complex_slides, simple_slides,
                   processed_tables, complex_slide_descriptions, markdown_content,
                   raw_saved>>

ExportNext == ExportMethod1 \/ ExportMethod4 \/ Convert

SpecExport == ExportInit /\ [][ExportNext]_vars

-----------------------------------------------------------------------------
(* the pipeline on presentations whose text boxes hold markdown-like text:
   image references, rules, headings, long and wide lines *)

L_Image ==
    <<"!", "[", "c", "h", "a", "r", "t", "]", "(", "c", "h", "a", "r", "t", ".",
      "p", "n", "g", ")">>

L_Rule == <<"-", "-", "-">>

L_Heading ==
    <<"#", "#", " ", "R", "e", "s", "u", "l", "t", "s", " ", "-", " ", "2", "0",
      "2", "4", " ", "*", "f", "i", "n", "a", "l", "*">>

\* a line that is too long for a title
L_Long == <<"#", " ">> \o [i \in 1..MaxTitleLineLen |-> "x"]

\* a line that is short enough for a title and longer than a title
L_Wide == [i \in 1..(MaxTitleLen + 5) |-> "y"]

TitleLines == {L_Image, L_Rule, L_Heading, L_Long, L_Wide}

\* one slide with a text box of one or two lines, alone or followed by a
\* table slide or a picture slide
TitleDocs ==
    LET texts == TitleLines \cup {first \o <<NL>> \o second :
                                     first \in TitleLines, second \in TitleLines}
        slides == {<<Shape(MSO_TEXT_BOX, N_TextBox, TRUE, text)>> : text \in texts}
    IN  {<<slide>> : slide \in slides}
        \cup {<<slide, other>> : slide \in slides, other \in {<<S_Table>>, <<S_Picture>>}}

TitleInit ==
    /\ corrupt = FALSE
    /\ doc \in TitleDocs
    /\ pc = "start"
    /\ steps = {}
    /\ errors = {}
    /\ valid_slides = <<>>
    /\ removed_slides = <<>>
    /\ table_slides = <<>>
    /\ complex_slides = <<>>
    /\ simple_slides = <<>>
    /\ processed_tables = <<>>
    /\ complex_slide_descriptions = <<>>
    /\ outcomes = <<>>
    /\ writes = {}
    /\ attempts = <<>>
    /\ markdown_content = <<>>
    /\ raw_saved = FALSE
    /\ result = NoResult

SpecTitles == TitleInit /\ [][Next]_vars

-----------------------------------------------------------------------------
(* the pipeline on one-slide presentations that carry layout shapes: a
   footer text box, a footer picture *)

T_Confidential == <<"C", "o", "n", "f", "i", "d", "e", "n", "t", "i", "a", "l">>

N_FooterPlaceholder ==
    <<"F", "o", "o", "t", "e", "r", " ", "P", "l", "a", "c", "e", "h", "o", "l",
      "d", "e", "r", " ", "3">>

\* the footer of the slide layout, a text box
S_FooterText == Shape(MSO_TEXT_BOX, N_FooterPlaceholder, TRUE, T_Confidential)

\* the slides of one or two shapes
LayoutSlides ==
    LET catalog == {S_TextBox, S_Table, S_Picture, S_FooterText, S_FooterPicture}
    IN  {<<shape>> : shape \in catalog}
        \cup {<<first, second>> : first \in catalog, second \in catalog}

LayoutInit ==
    /\ corrupt = FALSE
    /\ doc \in {<<slide>> : slide \in LayoutSlides}
    /\ pc = "start"
    /\ steps = {}
    /\ errors = {}
    /\ valid_slides = <<>>
    /\ removed_slides = <<>>
    /\ table_slides = <<>>
    /\ complex_slides = <<>>
    /\ simple_slides = <<>>
    /\ processed_tables = <<>>
    /\ complex_slide_descriptions = <<>>
    /\ outcomes = <<>>
    /\ writes = {}
    /\ attempts = <<>>
    /\ markdown_content = <<>>
    /\ raw_saved = FALSE
    /\ result = NoResult

SpecLayout == LayoutInit /\ [][Next]_vars

----------------------------------------------------------------------------
(* Properties *)

NoDuplicates(seq) == Cardinality(ToSet(seq)) = Len(seq)

Classified == 2 \in steps

\* _filter_useless_slides raised: the run ended in STEP 1
FilterRaised == pc = "done" /\ 1 \in steps /\ 2 \notin steps

IsFailedResult(r) == "success" \in DOMAIN r /\ r.success = FALSE

\* t is s with one picture added at some position
AddsPicture(s, t) ==
    /\ Len(t) = Len(s) + 1
    /\ \E p \in 1..Len(t) :
        /\ ~t[p].type_raises
        /\ t[p].shape_type = MSO_PICTURE
        /\ SubSeq(t, 1, p - 1) \o SubSeq(t, p + 1, Len(t)) = s

\* t is s with one picture added that is not a placeholder
AddsContentPicture(s, t) ==
    /\ Len(t) = Len(s) + 1
    /\ \E p \in 1..Len(t) :
        /\ ~t[p].type_raises
        /\ t[p].shape_type = MSO_PICTURE
        /\ ~is_placeholder(t[p])
        /\ SubSeq(t, 1, p - 1) \o SubSeq(t, p + 1, Len(t)) = s

HasComplexEntry(i) ==
    \E k \in 1..Len(complex_slide_descriptions) : complex_slide_descriptions[k].key = i

\* C1: once the classifier has returned, by its normal path or by either
\* fallback, the table, complex and simple lists are duplicate-free, pairwise
\* disjoint, and together hold exactly the valid slide indices.
C1_Partition ==
    Classified =>
        /\ NoDuplicates(table_slides)
        /\ NoDuplicates(complex_slides)
        /\ NoDuplicates(simple_slides)
        /\ ToSet(table_slides) \cap ToSet(complex_slides) = {}
        /\ ToSet(table_slides) \cap ToSet(simple_slides) = {}
        /\ ToSet(complex_slides) \cap ToSet(simple_slides) = {}
        /\ ToSet(table_slides) \cup ToSet(complex_slides) \cup ToSet(simple_slides)
               = ToSet(valid_slides)

\* the fallback to _separate_table_slides ran and found a table slide and a
\* regular slide
C1_Witness ==
    /\ Classified
    /\ "complexity" \in errors
    /\ "table_separation" \notin errors
    /\ table_slides # <<>>
    /\ simple_slides # <<>>

\* C2: every valid slide holding a Table and a TextBox with non-empty text is
\* in the complex list and not in the table list once the classifier has
\* returned.
C2_MixedIsComplex ==
    Classified =>
        \A i \in ToSet(valid_slides) :
            (has_table(doc[i]) /\ has_textbox(doc[i]))
                => (i \in ToSet(complex_slides) /\ i \notin ToSet(table_slides))

C4_Isolation ==
    4 \in steps =>
        \A k \in ToSet(complex_slides) :
            ObjTypesRaises(doc[k]) => \A i \in ToSet(complex_slides) : HasComplexEntry(i)

\* C5: the entry point never lets an exception out.
C5_NeverRaises == pc # "raised"

\* C6: a returned result has success = false exactly when the run failed (the
\* parse failed, the raw text could not be saved, or the merge failed).
C6_SuccessIndicator ==
    pc = "done" =>
        (IsFailedResult(result)
            <=> \/ FilterRaised
                \/ (5 \in steps /\ 6 \notin steps)
                \/ "merge" \in errors)

\* C7: on a file that cannot be parsed the run ends with success = false, an
\* error message and the exception class name, and no classification,
\* extraction or merge step was entered.
C7_ParseFailure ==
    (corrupt /\ pc \notin {"start", "filter", "raised"}) =>
        /\ pc = "done"
        /\ DOMAIN result = {"success", "error", "exception_type"}
        /\ result.success = FALSE
        /\ result.exception_type = "PackageNotFoundError"
        /\ steps = {1}

C7_Witness == corrupt /\ pc = "done" /\ IsFailedResult(result)

\* C8 as first stated: whenever the filter hits an exception it returns
\* every slide index as valid and nothing as removed, and does not raise.
C8_AlwaysFailOpen ==
    "filter" \in errors =>
        /\ ~FilterRaised
        /\ valid_slides = Range(1, Len(doc))
        /\ removed_slides = <<>>

\* C8, amended: whenever the filter hits an exception and the presentation
\* can be opened again, it returns every slide index as valid and nothing
\* as removed; on a file that cannot be opened it raises, and the request
\* fails.
C8_FailOpenOrRaise ==
    "filter" \in errors =>
        /\ ~FilterRaised => (valid_slides = Range(1, Len(doc)) /\ removed_slides = <<>>)
        /\ FilterRaised => IsFailedResult(result)
        /\ (corrupt /\ pc # "filter") => FilterRaised

\* the filter failed open on a presentation with a slide it would have removed
C8_Witness ==
    /\ "filter" \in errors
    /\ pc = "classify"
    /\ \E i \in 1..Len(doc) : should_skip(doc[i])
    /\ valid_slides = Range(1, Len(doc))

\* C9: a run on a presentation that was parsed never returns a failed result.
C9_OnlyParseFails == (pc = "done" /\ ~FilterRaised) => ~IsFailedResult(result)

\* C10: a valid slide whose complexity analysis raised is in the simple list
\* once the classifier has returned.
C10_FailedAnalysisIsSimple ==
    Classified =>
        \A k \in ToSet(valid_slides) : AnalysisRaises(doc[k]) => k \in ToSet(simple_slides)

\* C11: every valid slide that _is_complex_slide finds complex is in the
\* complex list and not in the table list once the classifier has returned,
\* also when the classification of another slide raised.
C11_ComplexNeverTable ==
    Classified =>
        \A i \in ToSet(valid_slides) :
            IsComplexSlide(doc[i])
                => (i \in ToSet(complex_slides) /\ i \notin ToSet(table_slides))

\* the shape is known to be of the type
TypeIs(shape, type) == ~shape.type_raises /\ shape.shape_type = type

\* the content shapes of a slide, by position
ContentShapes(slide) == {j \in 1..Len(slide) : ~is_placeholder(slide[j])}

\* a rectangle that only holds text: more than 10 characters once stripped
SimpleTextRectangle(shape) ==
    /\ Contains(N_rectangle, Lower(shape.name)) \/ Contains(N_rect, Lower(shape.name))
    /\ shape.has_text
    /\ Len(Strip(shape.text)) > MinRectTextLen

\* the visual graphics among the content shapes: pictures, lines, and auto
\* shapes that are not simple text rectangles
VisualShapes(slide) ==
    {j \in ContentShapes(slide) :
        \/ TypeIs(slide[j], MSO_PICTURE)
        \/ TypeIs(slide[j], MSO_LINE)
        \/ TypeIs(slide[j], MSO_AUTO_SHAPE) /\ ~SimpleTextRectangle(slide[j])}

\* the six triggers
Criteria(slide) ==
    LET content == ContentShapes(slide)
        visual == VisualShapes(slide)
    IN \/ Cardinality(content) > MaxContentObjects
       \/ Cardinality(visual) > MaxVisualGraphics
       \/ \E j \in content : Contains(N_connector, Lower(slide[j].name))
       \/ \E j \in content : slide[j].has_shapes
       \/ \E j \in content : TypeIs(slide[j], MSO_PICTURE)
       \/ /\ \E j \in content : TypeIs(slide[j], MSO_TABLE)
          /\ visual # {}

\* C12 as first stated: _is_complex_slide returns true exactly when one of
\* the six triggers holds over the content shapes.
C12_Criteria == pc = "analysed" => (result.is_complex <=> Criteria(doc[1]))

\* C12, amended: when the analysis does not raise, _is_complex_slide returns
\* true exactly when one of the six triggers holds over the content shapes
\* (6 content shapes and 2 visual graphics with no other trigger: false); when
\* the analysis raises it returns false.
C12_CriteriaUnlessRaised ==
    pc = "analysed" =>
        /\ ~AnalysisRaises(doc[1]) => (result.is_complex <=> Criteria(doc[1]))
        /\ AnalysisRaises(doc[1]) => ~result.is_complex

\* exactly 6 content shapes, exactly 2 visual graphics, found not complex
C12_Witness ==
    /\ pc = "analysed"
    /\ Cardinality(ContentShapes(doc[1])) = MaxContentObjects
    /\ Cardinality(VisualShapes(doc[1])) = MaxVisualGraphics
    /\ ~AnalysisRaises(doc[1])
    /\ ~result.is_complex

\* the lower-cased concatenation of the non-empty texts of a slide's shapes
LoweredSlideText(slide) == Lower(Join(ShapeTexts(slide), <<" ">>))

MatchesSkipPattern(slide) ==
    \E p \in ToSet(skip_patterns) : Contains(p, LoweredSlideText(slide))

\* C13 as first stated: once the filter has returned, slide i is removed
\* exactly when its lower-cased text contains a skip pattern, and is kept
\* otherwise.
C13_RemovedIffPattern ==
    (1 \in steps /\ ~FilterRaised) =>
        \A i \in 1..Len(doc) :
            /\ i \in ToSet(removed_slides) <=> MatchesSkipPattern(doc[i])
            /\ i \in ToSet(valid_slides) <=> ~MatchesSkipPattern(doc[i])

\* C13, amended: when the filter returns without having hit an exception,
\* slide i is removed exactly when its lower-cased text contains a skip
\* pattern, and is kept otherwise; when it hit an exception and failed open,
\* no slide is removed.
C13_RemovedIffPatternUnlessFailed ==
    (1 \in steps /\ ~FilterRaised) =>
        /\ "filter" \notin errors =>
            \A i \in 1..Len(doc) :
                /\ i \in ToSet(removed_slides) <=> MatchesSkipPattern(doc[i])
                /\ i \in ToSet(valid_slides) <=> ~MatchesSkipPattern(doc[i])
        /\ "filter" \in errors => removed_slides = <<>>

\* a slide removed for a pattern in its second text, and a slide with text
\* that is kept
C13_Witness ==
    /\ 1 \in steps
    /\ "filter" \notin errors
    /\ \E i \in ToSet(removed_slides) :
        /\ Len(doc[i]) = 2
        /\ HasNonEmptyText(doc[i][1])
        /\ ~MatchesSkipPattern(<<doc[i][1]>>)
        /\ MatchesSkipPattern(<<doc[i][2]>>)
    /\ \E j \in ToSet(valid_slides) : ShapeTexts(doc[j]) # <<>>

\* the slide indices handed to the classifier's lists or found in an
\* extraction result: the keys of the two dicts and the "## d.pptx:slide-i"
\* headers of the simple slides' text
Processed ==
    ToSet(table_slides) \cup ToSet(complex_slides) \cup ToSet(simple_slides)
    \cup ToSet(TableKeys(processed_tables))
    \cup ToSet(ComplexKeys(complex_slide_descriptions))
    \cup {i \in 1..Len(doc) :
            Contains(<<"#", "#", " ">> \o SourceId(i) \o <<NL>>, markdown_content)}

\* C14: in every state of a run, the slide indices classified or extracted
\* are among the filter's valid indices, and no removed index is among them.
C14_RemovedNeverProcessed ==
    /\ Processed \subseteq ToSet(valid_slides)
    /\ Processed \cap ToSet(removed_slides) = {}
    /\ ToSet(valid_slides) \cap ToSet(removed_slides) = {}

\* a slide was removed, and the three strategies ran and extracted something
C14_Witness ==
    /\ removed_slides # <<>>
    /\ 5 \in steps
    /\ Processed # {}
    /\ processed_tables # <<>> \/ complex_slide_descriptions # <<>> \/ markdown_content # <<>>

\* a merged result: the merger returned, and not by its except branch
Merged == pc = "done" /\ 6 \in steps /\ "merge" \notin errors

\* the processed slides with non-empty output: the simple slides that gave
\* text, the complex slides and the table slides that have an entry
NonEmptyOutputs ==
    Len(FallbackContent(doc, simple_slides))
    + Len(complex_slide_descriptions) + Len(processed_tables)

\* C15: in every merged result, markdown_data has at least as many records as
\* there are processed slides with non-empty output, simple slides with short
\* text included.
C15_RecordPerOutput == Merged => Len(result.markdown_data) >= NonEmptyOutputs

NonDecreasing(seq) == \A i \in 1..(Len(seq) - 1) : seq[i] <= seq[i + 1]

\* the section a record of markdown_data belongs to, by its title
RecordSection(r) ==
    IF Prefix(r.title, Len(T_ComplexSlide)) = T_ComplexSlide THEN "complex"
    ELSE IF Prefix(r.title, Len(T_TableSlide)) = T_TableSlide THEN "table"
    ELSE "simple"

\* the n of a record's source "d.pptx:slide-n"
RecordSlide(r) ==
    CHOOSE n \in 0..(Len(doc) * (MaxShapes + 2)) : r.source = SourceId(n)

\* the slide numbers of the records of one section, in the list's order
RecordSlides(records, section) ==
    LET of == SelectSeq(records, LAMBDA r : RecordSection(r) = section)
    IN [i \in 1..Len(of) |-> RecordSlide(of[i])]

\* the headers of the entries of one section of the merged markdown
EntryHeaders(markdown, section) ==
    LET of == SelectSeq(markdown, LAMBDA e : e.section = section)
    IN [i \in 1..Len(of) |-> of[i].header]

\* where the header of slide i starts in the simple slides' text (0: nowhere)
HeaderAt(text, i) ==
    LET h == <<"#", "#", " ">> \o SourceId(i) \o <<NL>>
    IN IF Contains(h, text)
       THEN CHOOSE k \in 1..Len(text) :
                /\ SubSeq(text, k, k + Len(h) - 1) = h
                /\ \A m \in 1..(k - 1) : SubSeq(text, m, m + Len(h) - 1) # h
       ELSE 0

\* C16: in a merged result, the slide indices of the entries of each section
\* of the merged markdown, and of the records of each section of
\* markdown_data, are in non-decreasing order.
C16_OrderWithinSection ==
    Merged =>
        /\ \A i, j \in 1..Len(doc) :
            (i < j /\ HeaderAt(markdown_content, i) > 0 /\ HeaderAt(markdown_content, j) > 0)
                => HeaderAt(markdown_content, i) < HeaderAt(markdown_content, j)
        /\ \A section \in {"complex", "table"} :
            NonDecreasing(EntryHeaders(result.enhanced_markdown, section))
        /\ \A section \in {"simple", "complex", "table"} :
            NonDecreasing(RecordSlides(result.markdown_data, section))

\* a merged result with two entries in one section of the merged markdown
\* and two records in one section of markdown_data
C16_Witness ==
    /\ Merged
    /\ \E section \in {"complex", "table"} :
        Len(EntryHeaders(result.enhanced_markdown, section)) = 2
    /\ \E section \in {"simple", "complex", "table"} :
        Len(RecordSlides(result.markdown_data, section)) = 2

SectionRank(section) ==
    CASE section = "simple" -> 1 [] section = "complex" -> 2 [] section = "table" -> 3

\* C17: in a merged result, the entries of the merged markdown and the
\* records of markdown_data come section by section: simple, then complex,
\* then table.
C17_SectionOrder ==
    Merged =>
        /\ NonDecreasing([i \in 1..Len(result.enhanced_markdown) |->
                             SectionRank(result.enhanced_markdown[i].section)])
        /\ NonDecreasing([i \in 1..Len(result.markdown_data) |->
                             SectionRank(RecordSection(result.markdown_data[i]))])

\* a merged result where a simple slide comes after a table or complex slide
\* of the document, and its record before that slide's record
C17_Witness ==
    /\ Merged
    /\ simple_slides = <<2>>
    /\ Len(result.markdown_data) = 2
    /\ Len(result.enhanced_markdown) = 2
    /\ RecordSection(result.markdown_data[1]) = "simple"
    /\ RecordSection(result.markdown_data[2]) \in {"complex", "table"}
    /\ RecordSlide(result.markdown_data[2]) = 1

\* the records of markdown_data of one section whose source names slide k
RecordsOf(records, section, k) ==
    {i \in 1..Len(records) :
        RecordSection(records[i]) = section /\ records[i].source = SourceId(k)}

\* C18: in a merged result, every slide with an entry in
\* complex_slide_descriptions or in processed_tables has exactly one record
\* of its section in markdown_data, whose source is "d.pptx:slide-n" with n
\* the slide's own index and whose content is that slide's description; and
\* the two sections hold no other record.
C18_OneRecordPerSlide ==
    Merged =>
        /\ \A k \in ToSet(ComplexKeys(complex_slide_descriptions)) :
            /\ Cardinality(RecordsOf(result.markdown_data, "complex", k)) = 1
            /\ \A i \in RecordsOf(result.markdown_data, "complex", k) :
                /\ result.markdown_data[i].content.slide = k
                /\ k \in ToSet(complex_slides)
        /\ \A k \in ToSet(TableKeys(processed_tables)) :
            /\ Cardinality(RecordsOf(result.markdown_data, "table", k)) = 1
            /\ \A i \in RecordsOf(result.markdown_data, "table", k) :
                /\ result.markdown_data[i].content.slide = k
                /\ k \in ToSet(table_slides)
        /\ Len(RecordSlides(result.markdown_data, "complex")) = Len(complex_slide_descriptions)
        /\ Len(RecordSlides(result.markdown_data, "table")) = Len(processed_tables)

\* a merged result with the record of a table or complex slide that is not
\* the first slide of the document
C18_Witness ==
    /\ Merged
    /\ Len(doc) = 2
    /\ table_slides = <<2>> \/ complex_slides = <<2>>
    /\ Len(result.markdown_data) = 1
    /\ result.markdown_data[1].source = SourceId(2)

\* the descriptions _convert_slide_to_image_and_process returned, by slide
Converted ==
    {[slide |-> processed_tables[i].slide_number,
      description |-> processed_tables[i].description] : i \in 1..Len(processed_tables)}
    \cup {[slide |-> complex_slide_descriptions[i].key,
           description |-> complex_slide_descriptions[i].description] :
             i \in 1..Len(complex_slide_descriptions)}

\* C19: for every slide converted, when the exporter gave no image the
\* description is the slide's raw text under the "(text-only fallback)"
\* marker if that text is not blank, and the "[Slide n: Image processing
\* failed and no text content available]" placeholder for that slide
\* otherwise; and a description that comes from the description service is
\* found only where an image was exported.
C19_RenderingFallback ==
    \A c \in Converted :
        LET slide_text == ExtractTextFromSlide(doc[c.slide])
            outcome == outcomes[c.slide]
        IN /\ (outcome.kind = "export_failed" /\ Strip(slide_text) # <<>>)
                => c.description = Description("text_fallback", c.slide, slide_text)
           /\ (outcome.kind = "export_failed" /\ Strip(slide_text) = <<>>)
                => c.description = Description("image_failed", c.slide, <<>>)
           /\ c.description.kind \in {"description", "no_content", "gemini_error"}
                => outcome.kind \in {"reply", "gemini_raises"}

\* the exporter gave no image for a slide with text and for a slide without
C19_Witness ==
    /\ 4 \in steps
    /\ \E c \in Converted :
        outcomes[c.slide].kind = "export_failed" /\ c.description.kind = "text_fallback"
    /\ \E c \in Converted :
        outcomes[c.slide].kind = "export_failed" /\ c.description.kind = "image_failed"

\* the filter ran on a presentation that parses and has no slides
EmptyPresentation == doc = <<>> /\ ~corrupt /\ 1 \in steps

ResultData(field) == IF field \in DOMAIN result THEN result[field] ELSE <<>>

\* C21: when the merger fails after slides were extracted, the result
\* returned has success = false, and
\* what the strategies had extracted (the simple text, the complex
\* descriptions, the table records) is found in it.
C21_MergeFailurePreserves ==
    (pc = "done" /\ "merge" \in errors /\ NonEmptyOutputs > 0) =>
        /\ IsFailedResult(result)
        /\ markdown_content # <<>> =>
            (ResultData("markdown_data") # <<>> \/ ResultData("enhanced_markdown") # <<>>)
        /\ complex_slide_descriptions # <<>> =>
            (ResultData("markdown_data") # <<>>
                \/ ResultData("complex_slides_info") = complex_slide_descriptions)
        /\ processed_tables # <<>> =>
            (ResultData("markdown_data") # <<>>
                \/ ResultData("table_slides_info") = processed_tables)

\* no shape of the slide fails when read
Readable(slide) ==
    \A j \in 1..Len(slide) : ~slide[j].type_raises /\ ~slide[j].text_raises

\* the list the classifier put slide i in
Assigned(i) ==
    IF i \in ToSet(complex_slides) THEN "complex"
    ELSE IF i \in ToSet(table_slides) THEN "table"
    ELSE IF i \in ToSet(simple_slides) THEN "simple"
    ELSE "none"

\* C22: once the classifier has returned, every valid slide whose own shapes
\* read without failure has the category it has in a run where no slide
\* fails, whatever happened while another slide was classified.
C22_Independent ==
    Classified =>
        \A j \in ToSet(valid_slides) : Readable(doc[j]) => Assigned(j) = Category(doc[j])

\* the orders in which the entries of a dict may have been inserted
InsertionOrders(dict) ==
    {[i \in 1..Len(dict) |-> dict[p[i]]] : p \in Permutations(1..Len(dict))}

\* C23: whatever the order in which the table records and the complex
\* descriptions were inserted into their dicts, the merger builds the same
\* merged markdown and the same markdown_data as for ascending insertion.
C23_GatherOrder ==
    4 \in steps =>
        \A tables \in InsertionOrders(processed_tables) :
            \A complex \in InsertionOrders(complex_slide_descriptions) :
                /\ EnhancedMarkdown(markdown_content, tables, complex)
                    = EnhancedMarkdown(markdown_content, processed_tables,
                                       complex_slide_descriptions)
                /\ MarkdownData(markdown_content, tables, complex)
                    = MarkdownData(markdown_content, processed_tables,
                                   complex_slide_descriptions)

\* the call of an export method that returned last
LastExport == outcomes[result.slide]

\* C24: two different slides never write the same scratch path (image file,
\* temporary export directory and its files, intermediate PDF), whatever the
\* timestamps of their exports.
C24_DisjointScratchPaths ==
    \A w1 \in writes : \A w2 \in writes : w1.slide # w2.slide => w1.path # w2.path

\* C25: the conversion chain runs its commands in the listed order, moves to
\* the next command only after a failure, returns the PDF at the first
\* success, raises only when all commands failed, and goes on after a timeout.
C25_FallbackChain ==
    pc = "converted" =>
        /\ Len(attempts) \in 1..Len(commands_to_try)
        /\ \A i \in 1..Len(attempts) : attempts[i].command = commands_to_try[i]
        /\ \A i \in 1..(Len(attempts) - 1) : attempts[i].outcome # "ok"
        /\ ~result.raised =>
              (attempts[Len(attempts)].outcome = "ok" /\ result.path = pdf_path)
        /\ result.raised =>
              /\ Len(attempts) = Len(commands_to_try)
              /\ \A i \in 1..Len(attempts) : attempts[i].outcome # "ok"
        /\ \A i \in 1..Len(attempts) :
              (attempts[i].outcome = "timeout" /\ i < Len(commands_to_try))
                  => Len(attempts) > i

C25_Witness ==
    /\ pc = "converted"
    /\ Len(attempts) = 3
    /\ attempts[1].outcome = "timeout"
    /\ attempts[2].outcome = "not_found"
    /\ attempts[3].outcome = "ok"
    /\ ~result.raised

\* C30: method 1 returns the image path when the direct Export failed and
\* ExportAsFixedFormat produced the slide's file, and raises only when
\* neither export produced the file.
C30_AlternativeExport ==
    (pc = "export" /\ outcomes # <<>> /\ LastExport.method = "method1") =>
        /\ (LastExport.direct = "raises" /\ LastExport.alt = "file") =>
              (~result.raised /\ [slide |-> result.slide, path |-> result.path] \in writes)
        /\ result.raised =>
              (LastExport.direct # "ok" /\ (LastExport.direct = "raises" => LastExport.alt # "file"))

\* the cells of a row that hold text, as they are / stripped of the
\* surrounding whitespace
NonEmptyCells(row) == SelectSeq(row, LAMBDA cell : cell # <<>>)

NonBlankCells(row) ==
    SelectSeq([i \in 1..Len(row) |-> Strip(row[i])], LAMBDA cell : cell # <<>>)

\* the rows that contribute, each joined with " | ", separated by newlines
RowsJoined(rows) ==
    Join([i \in 1..Len(rows) |-> Join(rows[i], <<" ", "|", " ">>)], <<NL>>)

TablesOf(slide) == {j \in 1..Len(slide) : TypeIs(slide[j], MSO_TABLE)}

\* C26 as stated: the extracted_text of a table record contains, for each
\* table of the slide, the rows that have a non-empty cell, each as its
\* non-empty cell texts joined with " | ", in table order, one per line.
C26_TableText ==
    \A k \in 1..Len(processed_tables) :
        LET slide == doc[processed_tables[k].slide_number] IN
        \A j \in TablesOf(slide) :
            LET rows == [i \in 1..Len(slide[j].cells) |-> NonEmptyCells(slide[j].cells[i])]
            IN  Contains(RowsJoined(SelectSeq(rows, LAMBDA row : row # <<>>)),
                         processed_tables[k].extracted_text)

\* C26 amended: the same with "non-empty" read after stripping: the cell
\* texts are stripped of surrounding whitespace, blank cells are left out
\* and rows with only blank cells contribute nothing.
C26_TableTextStripped ==
    \A k \in 1..Len(processed_tables) :
        LET slide == doc[processed_tables[k].slide_number] IN
        \A j \in TablesOf(slide) :
            LET rows == [i \in 1..Len(slide[j].cells) |-> NonBlankCells(slide[j].cells[i])]
            IN  Contains(RowsJoined(SelectSeq(rows, LAMBDA row : row # <<>>)),
                         processed_tables[k].extracted_text)

C26_Witness ==
    \E k \in 1..Len(processed_tables) :
        /\ S_Table \in ToSet(doc[processed_tables[k].slide_number])
        /\ processed_tables[k].extracted_text = <<"Q", "1", " ", "|", " ", "4", "2">>

\* a line or a section with the markdown marker characters removed
Cleaned(text) == Strip(Remove(Strip(text), {"#", "*", "-"}))

\* the first index of `lines` that satisfies Test
FirstLine(lines, Test(_)) ==
    CHOOSE j \in 1..Len(lines) : Test(lines[j]) /\ \A m \in 1..(j - 1) : ~Test(lines[m])

\* the title as stated: the first non-empty line under 100 characters,
\* cleaned and cut to 80; failing that the first 50 characters of the
\* cleaned content
StatedTitle(content) ==
    LET lines == Split(content, <<NL>>)
        Short(line) == Strip(line) # <<>> /\ Len(Strip(line)) < MaxTitleLineLen
    IN  IF \E k \in 1..Len(lines) : Short(lines[k])
        THEN Prefix(Cleaned(lines[FirstLine(lines, Short)]), MaxTitleLen)
        ELSE Prefix(Cleaned(content), MaxFallbackTitleLen)

\* the title as derived for a section of the simple text: lines that start
\* with "!" or clean to nothing are passed over, the fallback also removes
\* "!" and marks a cut with "..."
SectionTitle(content) ==
    LET lines == Split(content, <<NL>>)
        Titled(line) == /\ Strip(line) # <<>>
                        /\ Head(Strip(line)) # "!"
                        /\ Len(Strip(line)) < MaxTitleLineLen
                        /\ Cleaned(line) # <<>>
        clean == Strip(Remove(content, {"#", "*", "-", "!"}))
    IN  IF \E k \in 1..Len(lines) : Titled(lines[k])
        THEN Prefix(Cleaned(lines[FirstLine(lines, Titled)]), MaxTitleLen)
        ELSE IF Len(clean) > MaxFallbackTitleLen
             THEN Prefix(clean, MaxFallbackTitleLen) \o <<".", ".", ".">>
             ELSE clean

\* the records of the flat list
Records == {ResultData("markdown_data")[k] : k \in 1..Len(ResultData("markdown_data"))}

\* C27 as stated, for the section records of the simple text and for the
\* complex records, whose content starts with the line "## <source>": the
\* title is the first non-empty line of the content under 100 characters,
\* cleaned of marker characters and cut to 80 characters, or else the first
\* 50 characters of the cleaned content.
C27_DerivedTitle ==
    Merged =>
        \A r \in Records :
            /\ r.content.kind = "section" => r.title = StatedTitle(r.content.text)
            /\ r.content.kind = "complex" =>
                  r.title = StatedTitle(<<"#", "#", " ">> \o SourceId(r.content.slide))

\* C27 amended: a section record is titled by the first line that is
\* non-empty, does not start with "!", is under 100 characters and does not
\* clean to nothing (cleaned, cut to 80), or else by the content cleaned of
\* # * - ! and cut to 50 characters plus "..."; a complex record is titled
\* "Complex Slide n Analysis" and a table record "Table Slide n Analysis".
C27_TitleRule ==
    Merged =>
        \A r \in Records :
            CASE r.content.kind = "section" -> r.title = SectionTitle(r.content.text)
              [] r.content.kind = "complex" ->
                    r.title = T_ComplexSlide \o IntToStr(r.content.slide) \o T_Analysis
              [] OTHER -> r.title = T_TableSlide \o IntToStr(r.content.slide) \o T_Analysis

C27_Witness ==
    /\ Merged
    /\ \E r \in Records :
        /\ r.content.kind = "section"
        /\ r.content.text = L_Image \o <<NL>> \o L_Wide
        /\ r.title = [i \in 1..MaxTitleLen |-> "y"]
    /\ \E r \in Records : r.content.kind = "complex"

\* a slide without its placeholder shapes
ContentOnly(slide) == SelectSeq(slide, LAMBDA shape : ~is_placeholder(shape))

\* C28: a slide is assigned the category that the same slide without its
\* placeholder shapes (footer, slide number, placeholder) would be assigned.
C28_PlaceholdersIgnored ==
    (Classified /\ "complexity" \notin errors) =>
        \A j \in ToSet(valid_slides) : Assigned(j) = Category(ContentOnly(doc[j]))

\* C29: an index stands for the same slide of the original document at
\* every stage: the filter keeps index j exactly for a slide j without a
\* skip pattern, the classifier puts j in a list that fits slide j, every
\* extraction strategy reads slide j for index j, and the complex and table
\* records of index j carry the source "<doc>:slide-j" and slide j's
\* description.
C29_StableIndices ==
    /\ (1 \in steps /\ ~FilterRaised /\ "filter" \notin errors) =>
          /\ \A j \in ToSet(valid_slides) : j \in 1..Len(doc) /\ ~MatchesSkipPattern(doc[j])
          /\ \A j \in ToSet(removed_slides) : j \in 1..Len(doc) /\ MatchesSkipPattern(doc[j])
    /\ \A j \in ToSet(table_slides) : TablesOf(doc[j]) # {}
    /\ \A j \in ToSet(complex_slides) : Category(doc[j]) = "complex"
    /\ \A k \in 1..Len(processed_tables) :
          LET n == processed_tables[k].slide_number IN
              /\ n \in ToSet(table_slides)
              /\ processed_tables[k].extracted_text = ExtractTextFromSlide(doc[n])
              /\ processed_tables[k].description
                    = ConvertSlideToImageAndProcess(doc[n], n, outcomes[n])
    /\ \A k \in 1..Len(complex_slide_descriptions) :
          LET n == complex_slide_descriptions[k].key IN
              /\ n \in ToSet(complex_slides)
              /\ complex_slide_descriptions[k].metadata = n
              /\ complex_slide_descriptions[k].description
                    = ConvertSlideToImageAndProcess(doc[n], n, outcomes[n])
    /\ (5 \in steps /\ markdown_content # <<>>) =>
          \A j \in ToSet(simple_slides) :
              (~SlideReadRaises(doc[j]) /\ ShapeTexts(doc[j]) # <<>>)
                  => Contains(SlideContent(doc[j], j), markdown_content)
    /\ Merged =>
          /\ \A k \in 1..Len(processed_tables) :
                \E r \in Records :
                    /\ r.source = SourceId(processed_tables[k].slide_number)
                    /\ r.content = processed_tables[k].description
          /\ \A k \in 1..Len(complex_slide_descriptions) :
                \E r \in Records :
                    /\ r.source = SourceId(complex_slide_descriptions[k].key)
                    /\ r.content.kind = "complex"
                    /\ r.content.description = complex_slide_descriptions[k].description

\* the first slide was removed and the second one, a table slide, is still
\* slide 2 in its record
C29_Witness ==
    /\ Merged
    /\ removed_slides = <<1>>
    /\ valid_slides = <<2>>
    /\ doc[2] = <<S_Table>>
    /\ \E r \in Records : r.source = SourceId(2) /\ r.content.kind = "text_fallback"

====
